---- MODULE Spec2Model ----
(***************************************************************************)
(* Model of the OAuth2 authorization-code flow of cumulusci/oauth/client.py *)
(*                                                                         *)
(* Three units of execution are modelled:                                  *)
(*   - the caller's thread running OAuth2Client.auth_code_flow, which      *)
(*     runs the HTTPServer accept loop (serve_forever) and, inside it, the *)
(*     request handler OAuthCallbackHandler.do_GET;                        *)
(*   - the HTTPDTimeout thread (the timeout guard);                        *)
(*   - one deferred shutdown thread per handled callback                   *)
(*     (threading.Thread(target=self.server.shutdown)).                    *)
(* The browser / authorization server is the environment: it delivers      *)
(* callback requests and answers the token exchange.                       *)
(* Further specifications add an interrupt of the serving thread           *)
(* (SpecInterrupt), a second invocation on the same client (SpecReuse) and *)
(* a second client object (SpecTwoClients).  SpecGenerate models           *)
(* BaseGenerateDataTask of tasks/bulkdata/base_generate_data_task.py.      *)
(***************************************************************************)
EXTENDS Integers, Sequences, FiniteSets, TLC

\* ---------------------------------------------------------------- bounds
\* number of callback requests the environment may deliver in one flow
MaxRequests == 2
\* the same, in the specification the liveness properties are checked under
MaxLiveRequests == 1
\* largest value of the task option num_records
MaxNumRecords == 2

\* ------------------------------------------------------ program constants
\* OAuth2Client.httpd_timeout (300 seconds in the source, scaled down)
httpd_timeout == 2
\* socket.setdefaulttimeout(3)
SERVE_SOCKET_TIMEOUT == 3
\* socket.getdefaulttimeout() of a fresh interpreter is None, written 0 here
NO_SOCKET_TIMEOUT == 0
\* http.client.OK and http.client.BAD_REQUEST
HTTP_OK == 200
BAD_REQUEST == 400
\* self.options.get("num_records", 1)
DEFAULT_NUM_RECORDS == 1
\* self.options.get("current_batch_number", 0)
DEFAULT_BATCH_NUM == 0

\* identity of the HTTPDTimeout thread as a caller of httpd.shutdown()
GuardCaller == 0
\* identity of the thread that runs serve_forever and do_GET
HandlerCaller == -1

ReqIds == 1..MaxRequests
Callers == {HandlerCaller, GuardCaller} \cup ReqIds

VARIABLES
    now,             \* time.time()
    pcMain,          \* position of auth_code_flow / serve_forever / do_GET
    pcGuard,         \* position of HTTPDTimeout.run
    httpd,           \* OAuth2Client.httpd: "None" or "httpd"
    guardHttpd,      \* HTTPDTimeout.httpd: "None" or "httpd"
    target_time,     \* local of HTTPDTimeout.run
    wakeAt,          \* end of the guard's current time.sleep(1)
    shutdownRequest, \* BaseServer.__shutdown_request
    isShutDown,      \* BaseServer.__is_shut_down (threading.Event)
    sd,              \* per caller: progress of its httpd.shutdown() call
    reqs,            \* callback requests delivered so far, in arrival order
    taken,           \* number of requests the accept loop has taken
    cur,             \* request being handled by do_GET, 0 if none
    h,               \* do_GET locals http_status / http_body
    exch,            \* per request: the get_access_token call made for it
    page,            \* per request: the HTTP response written to the browser
    hres,            \* per request: how its handling ended
    response,        \* OAuth2Client.response
    sockDefault,     \* process-wide socket default timeout
    old_timeout,     \* local of auth_code_flow
    quitEarly,       \* timeout_thread.quit() ran before the deadline elapsed
    validated,       \* argument handed to client_info.validate_response
    result,          \* how auth_code_flow concluded
    parent,          \* OAuthCallbackHandler.parent (class attribute)
    otherResponse,   \* response of a second OAuth2Client object
    task             \* a BaseGenerateDataTask and the calls it has made

vars == <<now, pcMain, pcGuard, httpd, guardHttpd, target_time, wakeAt,
          shutdownRequest, isShutDown, sd, reqs, taken, cur, h, exch, page,
          hres, response, sockDefault, old_timeout, quitEarly, validated,
          result, parent, otherResponse, task>>

\* ------------------------------------------------------------ data values
None == "None"

\* self.response = None : the unset session outcome
NoResponse == [src |-> "none", req |-> 0, status |-> 0, body |-> "none"]

\* the requests.Response returned by requests.post for request r
ExchangeResponse(r, status) ==
    [src |-> "exchange", req |-> r, status |-> status,
     body |-> IF status >= BAD_REQUEST THEN "token_error" ELSE "token"]

\* the requests.Response built by do_GET itself (lines 162-164)
HandlerResponse(r, hh) ==
    [src |-> "handler", req |-> r, status |-> hh.status, body |-> hh.body]

NoPage == [status |-> 0, body |-> "none"]
NoExchange == [state |-> "none", status |-> 0, on |-> "None"]

\* status codes the token endpoint may answer with
ExchangeStatuses == {HTTP_OK, BAD_REQUEST}

\* parse_qs(urlparse(self.path).query): which of the keys error,
\* error_description and code the query carries
Query(e, d, c) == [hasError |-> e, hasDesc |-> d, hasCode |-> c]

\* the callbacks the environment sends: ?code=..., ?error=...&error_description=...,
\* ?error=... alone, and error, description and code together
Queries ==
    {Query(FALSE, FALSE, TRUE), Query(TRUE, TRUE, FALSE),
     Query(TRUE, FALSE, FALSE), Query(TRUE, TRUE, TRUE)}

\* ------------------------------------------------------- pure operators
\* `if "error" in args` of do_GET
BranchCodeFirst(q) == ~q.hasCode
TakesErrorBranch(q) == q.hasError

\* the error branch reads args['error'][0] and args['error_description'][0];
\* the other branch reads args["code"]; a missing key raises KeyError
RaisesKeyError(q) ==
    IF TakesErrorBranch(q) THEN ~q.hasDesc ELSE ~q.hasCode

\* http_status / http_body chosen before any exchange
InitialPage(q) ==
    IF TakesErrorBranch(q)
    THEN [status |-> BAD_REQUEST, body |-> "error_page"]
    ELSE [status |-> HTTP_OK, body |-> "congrats"]

\* `if self.parent.response.status_code >= http.client.BAD_REQUEST`
PageAfterExchangeStrict(hh, resp) ==
    IF resp.status > BAD_REQUEST
    THEN [status |-> resp.status, body |-> resp.body]
    ELSE hh
PageAfterExchange(hh, resp) ==
    IF resp.status >= BAD_REQUEST
    THEN [status |-> resp.status, body |-> resp.body]
    ELSE hh

\* `if self.parent.response is None: ... self.parent.response = response`
StoreIfUnset(old, new) == IF old = NoResponse THEN new ELSE old

\* `self.parent.response = self.parent.get_access_token(auth_code)`
AssignExchange(old, new) == new

\* threading.Thread(target=self.server.shutdown).start(): who runs shutdown
ShutdownInline(r) == HandlerCaller
ShutdownCaller(r) == r

\* `while time.time() < target_time`
SleepsForever(t, target) == TRUE
NeverSleeps(t, target) == FALSE
TimeRemaining(t, target) == t < target

\* HTTPDTimeout.quit: self.httpd = None
QuitKeepsHandle(hd) == hd
QuitValue(hd) == None

\* finally: socket.setdefaulttimeout(old_timeout)
KeepsServeTimeout(old, current) == current
RestoreValue(old, current) == old

\* values socket.getdefaulttimeout() may have when the flow is invoked:
\* None, the value the flow itself sets, and some other value
SocketTimeouts ==
    {NO_SOCKET_TIMEOUT, SERVE_SOCKET_TIMEOUT, SERVE_SOCKET_TIMEOUT + 1}

\* self.httpd = HTTPServer(...): each call constructs a new server object
NewServer(hd) == IF hd = None THEN "httpd" ELSE "httpd2"

\* ------------------------------------------- BaseGenerateDataTask: data
\* the order in which _generate_data makes its calls
GenerateOrder == <<"read_mappings", "init_db", "generate_data", "commit">>

\* values of the task option "mapping": absent, empty, relative, absolute
MappingOptions == {"None", "", "mapping.yml", "/repo/mapping.yml"}
\* values of the task option "database_url"
DatabaseOptions == {"None", "", "sqlite:///debug.db"}
\* the task option "num_records": absent, or a number
NumRecordsOptions ==
    {[has |-> FALSE, val |-> 0]}
        \cup {[has |-> TRUE, val |-> n] : n \in 0..MaxNumRecords}

\* what yaml.safe_load returns: None for an empty document, or the mapping
\* steps of the file (here the table each step names, in document order)
FileContents ==
    {[isNone |-> TRUE, tables |-> <<>>]}
        \cup {[isNone |-> FALSE, tables |-> t] :
                 t \in {<<>>, <<"Account">>, <<"Account", "Contact">>}}

\* truth value of an option or path string
Falsy(str) == str = "None" \/ str = ""

\* os.path.abspath
AbsPath(path) == IF path = "mapping.yml" THEN "/cwd/mapping.yml" ELSE path

\* _read_mappings: `if not mapping_file_path`
PathAlwaysGiven(path) == FALSE
MappingPathMissing(path) == Falsy(path)

\* init_db: `if mappings:`
HasMappings(m) == ~m.isNone /\ m.tables # <<>>

NoMappings == [isNone |-> TRUE, tables |-> <<>>]

\* no task is being run
NoTask ==
    [pc |-> "none", opt_mapping |-> "None", opt_database_url |-> "None",
     opt_num_records |-> [has |-> FALSE, val |-> 0],
     mapping_file |-> "None", database_url |-> "None", num_records |-> 0,
     current_batch_num |-> 0, mappings |-> NoMappings, todo |-> <<>>,
     calls |-> <<>>, engine |-> FALSE, tables |-> <<>>, session |-> FALSE,
     generated |-> FALSE, commits |-> 0, error |-> "none"]

\* a task constructed with the given options, before _init_options
NewTask(m, d, n) ==
    [NoTask EXCEPT !.pc = "new", !.opt_mapping = m,
                   !.opt_database_url = d, !.opt_num_records = n]

\* client_info.validate_response / the Authorizer's classification
Classify(resp) ==
    IF resp.src = "none" THEN "AuthTimeoutError"
    ELSE IF resp.src = "handler" THEN "AuthDeniedError"
    ELSE IF resp.status = HTTP_OK THEN "Success"
    ELSE "TokenValidationError"

\* ---------------------------------------------------------------- Init
\* an OAuth2Client after __init__, before auth_code_flow is invoked
InitFlow ==
    /\ now = 0
    /\ pcMain = "start"
    /\ pcGuard = "unstarted"
    /\ httpd = None
    /\ guardHttpd = None
    /\ target_time = 0
    /\ wakeAt = 0
    /\ shutdownRequest = FALSE
    /\ isShutDown = FALSE
    /\ sd = [c \in Callers |-> "none"]
    /\ reqs = <<>>
    /\ taken = 0
    /\ cur = 0
    /\ h = NoPage
    /\ exch = [r \in ReqIds |-> NoExchange]
    /\ page = [r \in ReqIds |-> NoPage]
    /\ hres = [r \in ReqIds |-> "none"]
    /\ response = NoResponse
    /\ old_timeout = NO_SOCKET_TIMEOUT
    /\ quitEarly = FALSE
    /\ validated = NoResponse
    /\ result = "none"
    /\ parent = None
    /\ otherResponse = NoResponse

\* the process has not called socket.setdefaulttimeout; no task is run
Init ==
    /\ InitFlow
    /\ sockDefault = NO_SOCKET_TIMEOUT
    /\ task = NoTask

\* -------------------------------------------------------- derived values
\* the guard has computed its target time and that time has been reached
DeadlineElapsed ==
    /\ pcGuard \notin {"unstarted", "run"}
    /\ now >= target_time

\* callers that have invoked httpd.shutdown()
ShutdownInvokers == {c \in Callers : sd[c] \in {"waiting", "returned"}}

\* requests for which get_access_token has been invoked
Exchanged == {r \in ReqIds : exch[r].state # "none"}

\* the accept loop of serve_forever is running (handler included)
InServeLoop ==
    pcMain \in {"loop", "select", "do_GET", "exchanging", "respond",
                "store", "blocked"}

\* ------------------------------------------------------------ environment
\* time passes; the clock starts when the guard reads it for its target
\* time and is not tracked beyond that target
Tick ==
    /\ pcGuard \notin {"unstarted", "run"}
    /\ now < target_time
    /\ now' = now + 1
    /\ UNCHANGED <<pcMain, pcGuard, httpd, guardHttpd, target_time, wakeAt,
                   shutdownRequest, isShutDown, sd, reqs, taken, cur, h,
                   exch, page, hres, response, sockDefault, old_timeout,
                   quitEarly, validated, result>>
    /\ UNCHANGED <<parent, otherResponse, task>>

\* the browser is redirected to the callback URL: a connection with query q
\* reaches the listening socket while serve_forever is running
Arrive(q) ==
    /\ httpd # None
    /\ InServeLoop
    /\ Len(reqs) < MaxRequests
    /\ reqs' = Append(reqs, [q |-> q, late |-> DeadlineElapsed])
    /\ UNCHANGED <<now, pcMain, pcGuard, httpd, guardHttpd, target_time,
                   wakeAt, shutdownRequest, isShutDown, sd, taken, cur, h,
                   exch, page, hres, response, sockDefault, old_timeout,
                   quitEarly, validated, result>>
    /\ UNCHANGED <<parent, otherResponse, task>>

\* ------------------------------------------------- auth_code_flow (main)
\* webbrowser.open(...); self._create_httpd()
CreateHttpd ==
    /\ pcMain = "start"
    /\ httpd' = NewServer(httpd)
    /\ pcMain' = "start_guard"
    /\ UNCHANGED <<now, pcGuard, guardHttpd, target_time, wakeAt,
                   shutdownRequest, isShutDown, sd, reqs, taken, cur, h,
                   exch, page, hres, response, sockDefault, old_timeout,
                   quitEarly, validated, result>>
    /\ parent' = "self"
    /\ UNCHANGED <<otherResponse, task>>

\* timeout_thread = HTTPDTimeout(self.httpd, self.httpd_timeout); start()
StartGuard ==
    /\ pcMain = "start_guard"
    /\ guardHttpd' = httpd
    /\ pcGuard' = "run"
    /\ pcMain' = "serve"
    /\ UNCHANGED <<now, httpd, target_time, wakeAt, shutdownRequest,
                   isShutDown, sd, reqs, taken, cur, h, exch, page, hres,
                   response, sockDefault, old_timeout, quitEarly, validated,
                   result>>
    /\ UNCHANGED <<parent, otherResponse, task>>

\* old_timeout = socket.getdefaulttimeout(); socket.setdefaulttimeout(3);
\* serve_forever begins: self.__is_shut_down.clear()
ServeEnter ==
    /\ pcMain = "serve"
    /\ old_timeout' = sockDefault
    /\ sockDefault' = SERVE_SOCKET_TIMEOUT
    /\ isShutDown' = FALSE
    /\ pcMain' = "loop"
    /\ UNCHANGED <<now, pcGuard, httpd, guardHttpd, target_time, wakeAt,
                   shutdownRequest, sd, reqs, taken, cur, h, exch, page,
                   hres, response, quitEarly, validated, result>>
    /\ UNCHANGED <<parent, otherResponse, task>>

\* serve_forever: `while not self.__shutdown_request:`
LoopCheck ==
    /\ pcMain = "loop"
    /\ pcMain' = IF shutdownRequest THEN "finally" ELSE "select"
    /\ UNCHANGED <<now, pcGuard, httpd, guardHttpd, target_time, wakeAt,
                   shutdownRequest, isShutDown, sd, reqs, taken, cur, h,
                   exch, page, hres, response, sockDefault, old_timeout,
                   quitEarly, validated, result>>
    /\ UNCHANGED <<parent, otherResponse, task>>

\* serve_forever: ready = selector.select(poll_interval);
\* `if self.__shutdown_request: break`; `if ready: _handle_request_noblock()`
Select ==
    /\ pcMain = "select"
    /\ IF shutdownRequest
       THEN /\ pcMain' = "finally"
            /\ UNCHANGED <<taken, cur>>
       ELSE \/ /\ taken < Len(reqs)
               /\ taken' = taken + 1
               /\ cur' = taken + 1
               /\ pcMain' = "do_GET"
            \/ /\ pcMain' = "loop"
               /\ UNCHANGED <<taken, cur>>
    /\ UNCHANGED <<now, pcGuard, httpd, guardHttpd, target_time, wakeAt,
                   shutdownRequest, isShutDown, sd, reqs, h, exch, page,
                   hres, response, sockDefault, old_timeout, quitEarly,
                   validated, result>>
    /\ UNCHANGED <<parent, otherResponse, task>>

\* do_GET lines 140-152: parse the query, pick the branch, and on the code
\* branch call get_access_token.  A KeyError leaves the handler; the server's
\* handle_error reports it and the accept loop goes on.
DoGetParse ==
    /\ pcMain = "do_GET"
    /\ LET q == reqs[cur].q IN
       IF RaisesKeyError(q)
       THEN /\ hres' = [hres EXCEPT ![cur] = "raised"]
            /\ cur' = 0
            /\ h' = NoPage
            /\ pcMain' = "loop"
            /\ UNCHANGED exch
       ELSE /\ h' = InitialPage(q)
            /\ IF TakesErrorBranch(q)
               THEN /\ pcMain' = "respond"
                    /\ UNCHANGED exch
               ELSE /\ exch' = [exch EXCEPT ![cur] =
                                   [state |-> "called", status |-> 0,
                                    on |-> parent]]
                    /\ pcMain' = "exchanging"
            /\ UNCHANGED <<hres, cur>>
    /\ UNCHANGED <<now, pcGuard, httpd, guardHttpd, target_time, wakeAt,
                   shutdownRequest, isShutDown, sd, reqs, taken, page,
                   response, sockDefault, old_timeout, quitEarly, validated,
                   result>>
    /\ UNCHANGED <<parent, otherResponse, task>>

\* get_access_token returns: requests.post gives a response of some status,
\* or raises when no HTTP response is received (lines 152-155)
ExchangeReturn ==
    /\ pcMain = "exchanging"
    /\ \/ \E s \in ExchangeStatuses :
            LET resp == ExchangeResponse(cur, s) IN
            /\ exch' = [exch EXCEPT ![cur] =
                           [state |-> "returned", status |-> s,
                            on |-> exch[cur].on]]
            /\ IF parent = "self"
               THEN /\ response' = AssignExchange(response, resp)
                    /\ UNCHANGED otherResponse
               ELSE /\ otherResponse' = AssignExchange(otherResponse, resp)
                    /\ UNCHANGED response
            /\ h' = PageAfterExchange(h, resp)
            /\ pcMain' = "respond"
            /\ UNCHANGED <<hres, cur>>
       \/ /\ exch' = [exch EXCEPT ![cur] =
                         [state |-> "raised", status |-> 0,
                          on |-> exch[cur].on]]
          /\ hres' = [hres EXCEPT ![cur] = "raised"]
          /\ cur' = 0
          /\ h' = NoPage
          /\ pcMain' = "loop"
          /\ UNCHANGED <<response, otherResponse>>
    /\ UNCHANGED <<now, pcGuard, httpd, guardHttpd, target_time, wakeAt,
                   shutdownRequest, isShutDown, sd, reqs, taken, page,
                   sockDefault, old_timeout, quitEarly, validated, result>>
    /\ UNCHANGED <<parent, task>>

\* do_GET lines 156-160: send_response, send_header, end_headers, write
SendResponse ==
    /\ pcMain = "respond"
    /\ page' = [page EXCEPT ![cur] = h]
    /\ pcMain' = "store"
    /\ UNCHANGED <<now, pcGuard, httpd, guardHttpd, target_time, wakeAt,
                   shutdownRequest, isShutDown, sd, reqs, taken, cur, h,
                   exch, hres, response, sockDefault, old_timeout,
                   quitEarly, validated, result>>
    /\ UNCHANGED <<parent, otherResponse, task>>

\* do_GET lines 161-169: record the handler's own response when none is
\* set, then hand self.server.shutdown to a new thread
StoreAndShutdown ==
    /\ pcMain = "store"
    /\ IF parent = "self"
       THEN /\ response' = StoreIfUnset(response, HandlerResponse(cur, h))
            /\ UNCHANGED otherResponse
       ELSE /\ otherResponse' =
                   StoreIfUnset(otherResponse, HandlerResponse(cur, h))
            /\ UNCHANGED response
    /\ sd' = [sd EXCEPT ![ShutdownCaller(cur)] = "pending"]
    /\ hres' = [hres EXCEPT ![cur] = "finished"]
    /\ pcMain' = IF ShutdownCaller(cur) = HandlerCaller
                 THEN "blocked" ELSE "loop"
    /\ cur' = 0
    /\ h' = NoPage
    /\ UNCHANGED <<now, pcGuard, httpd, guardHttpd, target_time, wakeAt,
                   shutdownRequest, isShutDown, reqs, taken, exch, page,
                   sockDefault, old_timeout, quitEarly, validated, result>>
    /\ UNCHANGED <<parent, task>>

\* serve_forever's finally clause:
\* self.__shutdown_request = False; self.__is_shut_down.set()
ServeFinally ==
    /\ pcMain = "finally"
    /\ shutdownRequest' = FALSE
    /\ isShutDown' = TRUE
    /\ pcMain' = "restore"
    /\ UNCHANGED <<now, pcGuard, httpd, guardHttpd, target_time, wakeAt,
                   sd, reqs, taken, cur, h, exch, page, hres, response,
                   sockDefault, old_timeout, quitEarly, validated, result>>
    /\ UNCHANGED <<parent, otherResponse, task>>

\* auth_code_flow's finally clause: socket.setdefaulttimeout(old_timeout)
RestoreTimeout ==
    /\ pcMain = "restore"
    /\ sockDefault' = RestoreValue(old_timeout, sockDefault)
    /\ pcMain' = "quit"
    /\ UNCHANGED <<now, pcGuard, httpd, guardHttpd, target_time, wakeAt,
                   shutdownRequest, isShutDown, sd, reqs, taken, cur, h,
                   exch, page, hres, response, old_timeout, quitEarly,
                   validated, result>>
    /\ UNCHANGED <<parent, otherResponse, task>>

\* timeout_thread.quit()
Quit ==
    /\ pcMain = "quit"
    /\ guardHttpd' = QuitValue(guardHttpd)
    /\ quitEarly' = ~DeadlineElapsed
    /\ pcMain' = "validate"
    /\ UNCHANGED <<now, pcGuard, httpd, target_time, wakeAt,
                   shutdownRequest, isShutDown, sd, reqs, taken, cur, h,
                   exch, page, hres, response, sockDefault, old_timeout,
                   validated, result>>
    /\ UNCHANGED <<parent, otherResponse, task>>

\* self.client_info.validate_response(self.response);
\* return safe_json_from_response(self.response)
ValidateAndReturn ==
    /\ pcMain = "validate"
    /\ validated' = response
    /\ result' = Classify(response)
    /\ pcMain' = "done"
    /\ UNCHANGED <<now, pcGuard, httpd, guardHttpd, target_time, wakeAt,
                   shutdownRequest, isShutDown, sd, reqs, taken, cur, h,
                   exch, page, hres, response, sockDefault, old_timeout,
                   quitEarly>>
    /\ UNCHANGED <<parent, otherResponse, task>>

\* --------------------------------------------------- HTTPDTimeout (guard)
\* run(): target_time = time.time() + self.timeout
GuardRun ==
    /\ pcGuard = "run"
    /\ target_time' = now + httpd_timeout
    /\ pcGuard' = "check"
    /\ UNCHANGED <<now, pcMain, httpd, guardHttpd, wakeAt, shutdownRequest,
                   isShutDown, sd, reqs, taken, cur, h, exch, page, hres,
                   response, sockDefault, old_timeout, quitEarly, validated,
                   result>>
    /\ UNCHANGED <<parent, otherResponse, task>>

\* `while time.time() < target_time:` then time.sleep(1) begins
GuardLoopCheck ==
    /\ pcGuard = "check"
    /\ IF TimeRemaining(now, target_time)
       THEN /\ pcGuard' = "sleep"
            /\ wakeAt' = now + 1
       ELSE /\ pcGuard' = "final_if"
            /\ UNCHANGED wakeAt
    /\ UNCHANGED <<now, pcMain, httpd, guardHttpd, target_time,
                   shutdownRequest, isShutDown, sd, reqs, taken, cur, h,
                   exch, page, hres, response, sockDefault, old_timeout,
                   quitEarly, validated, result>>
    /\ UNCHANGED <<parent, otherResponse, task>>

\* time.sleep(1) returns; `if not self.httpd: break`
GuardWake ==
    /\ pcGuard = "sleep"
    /\ now >= wakeAt
    /\ pcGuard' = IF guardHttpd = None THEN "final_if" ELSE "check"
    /\ UNCHANGED <<now, pcMain, httpd, guardHttpd, target_time, wakeAt,
                   shutdownRequest, isShutDown, sd, reqs, taken, cur, h,
                   exch, page, hres, response, sockDefault, old_timeout,
                   quitEarly, validated, result>>
    /\ UNCHANGED <<parent, otherResponse, task>>

\* `if self.httpd:` (first read of self.httpd after the loop)
GuardFinalIf ==
    /\ pcGuard = "final_if"
    /\ pcGuard' = IF guardHttpd # None THEN "call" ELSE "done"
    /\ UNCHANGED <<now, pcMain, httpd, guardHttpd, target_time, wakeAt,
                   shutdownRequest, isShutDown, sd, reqs, taken, cur, h,
                   exch, page, hres, response, sockDefault, old_timeout,
                   quitEarly, validated, result>>
    /\ UNCHANGED <<parent, otherResponse, task>>

\* `self.httpd.shutdown()` (second read of self.httpd): shutdown() sets
\* __shutdown_request and then waits; on None the attribute access raises
GuardCallShutdown ==
    /\ pcGuard = "call"
    /\ IF guardHttpd # None
       THEN /\ shutdownRequest' = TRUE
            /\ sd' = [sd EXCEPT ![GuardCaller] = "waiting"]
            /\ pcGuard' = "in_shutdown"
       ELSE /\ pcGuard' = "raised"
            /\ UNCHANGED <<shutdownRequest, sd>>
    /\ UNCHANGED <<now, pcMain, httpd, guardHttpd, target_time, wakeAt,
                   isShutDown, reqs, taken, cur, h, exch, page, hres,
                   response, sockDefault, old_timeout, quitEarly, validated,
                   result>>
    /\ UNCHANGED <<parent, otherResponse, task>>

\* ------------------------------------------------ deferred shutdown calls
\* the thread started by do_GET runs self.server.shutdown():
\* self.__shutdown_request = True, then self.__is_shut_down.wait()
ThreadCallShutdown(c) ==
    /\ c # GuardCaller
    /\ sd[c] = "pending"
    /\ shutdownRequest' = TRUE
    /\ sd' = [sd EXCEPT ![c] = "waiting"]
    /\ UNCHANGED <<now, pcMain, pcGuard, httpd, guardHttpd, target_time,
                   wakeAt, isShutDown, reqs, taken, cur, h, exch, page,
                   hres, response, sockDefault, old_timeout, quitEarly,
                   validated, result>>
    /\ UNCHANGED <<parent, otherResponse, task>>

\* self.__is_shut_down.wait() returns once the event is set
ShutdownReturn(c) ==
    /\ sd[c] = "waiting"
    /\ isShutDown
    /\ sd' = [sd EXCEPT ![c] = "returned"]
    /\ pcGuard' = IF c = GuardCaller THEN "done" ELSE pcGuard
    /\ pcMain' = IF c = HandlerCaller THEN "loop" ELSE pcMain
    /\ UNCHANGED <<now, httpd, guardHttpd, target_time, wakeAt,
                   shutdownRequest, isShutDown, reqs, taken, cur, h, exch,
                   page, hres, response, sockDefault, old_timeout,
                   quitEarly, validated, result>>
    /\ UNCHANGED <<parent, otherResponse, task>>

\* ------------------------------------------------------- specifications
MainStep ==
    \/ CreateHttpd
    \/ StartGuard
    \/ ServeEnter
    \/ LoopCheck
    \/ Select
    \/ DoGetParse
    \/ ExchangeReturn
    \/ SendResponse
    \/ StoreAndShutdown
    \/ ServeFinally
    \/ RestoreTimeout
    \/ Quit
    \/ ValidateAndReturn

GuardStep ==
    \/ GuardRun
    \/ GuardLoopCheck
    \/ GuardWake
    \/ GuardFinalIf
    \/ GuardCallShutdown

Next ==
    \/ Tick
    \/ \E q \in Queries : Arrive(q)
    \/ MainStep
    \/ GuardStep
    \/ \E c \in Callers : ThreadCallShutdown(c)
    \/ \E c \in Callers : ShutdownReturn(c)

Spec == Init /\ [][Next]_vars

\* the environment of the fair specification delivers fewer callbacks
LiveArrive(q) ==
    /\ Len(reqs) < MaxLiveRequests
    /\ Arrive(q)

LiveNext ==
    \/ Tick
    \/ \E q \in Queries : LiveArrive(q)
    \/ MainStep
    \/ GuardStep
    \/ \E c \in Callers : ThreadCallShutdown(c)
    \/ \E c \in Callers : ShutdownReturn(c)

\* Every thread that can take a step eventually takes one, time passes, and
\* a started token exchange returns or fails.  Callback arrival is not fair:
\* the browser may never be redirected.
FairSpec ==
    /\ Init
    /\ [][LiveNext]_vars
    /\ WF_vars(Tick)
    /\ WF_vars(MainStep)
    /\ WF_vars(GuardStep)
    /\ \A c \in Callers : WF_vars(ThreadCallShutdown(c))
    /\ \A c \in Callers : WF_vars(ShutdownReturn(c))

\* -------------------------------------------- interrupt while serving
\* KeyboardInterrupt is raised in the thread that runs serve_forever: it is
\* not an Exception, so neither do_GET's caller nor serve_forever handles
\* it, and the request being handled, if any, is abandoned
Interrupt ==
    /\ InServeLoop
    /\ pcMain' = "finally_interrupted"
    /\ hres' = IF cur = 0 THEN hres ELSE [hres EXCEPT ![cur] = "raised"]
    /\ exch' = IF cur # 0 /\ exch[cur].state = "called"
               THEN [exch EXCEPT ![cur].state = "raised"]
               ELSE exch
    /\ cur' = 0
    /\ h' = NoPage
    /\ UNCHANGED <<now, pcGuard, httpd, guardHttpd, target_time, wakeAt,
                   shutdownRequest, isShutDown, sd, reqs, taken, page,
                   response, sockDefault, old_timeout, quitEarly, validated,
                   result, parent, otherResponse, task>>

\* serve_forever's finally clause while the interrupt propagates
InterruptServeFinally ==
    /\ pcMain = "finally_interrupted"
    /\ shutdownRequest' = FALSE
    /\ isShutDown' = TRUE
    /\ pcMain' = "restore_interrupted"
    /\ UNCHANGED <<now, pcGuard, httpd, guardHttpd, target_time, wakeAt,
                   sd, reqs, taken, cur, h, exch, page, hres, response,
                   sockDefault, old_timeout, quitEarly, validated, result,
                   parent, otherResponse, task>>

\* auth_code_flow's finally clause while the interrupt propagates; the
\* statements after the try statement (quit, validate, return) do not run
InterruptRestoreTimeout ==
    /\ pcMain = "restore_interrupted"
    /\ sockDefault' = RestoreValue(old_timeout, sockDefault)
    /\ result' = "KeyboardInterrupt"
    /\ pcMain' = "done"
    /\ UNCHANGED <<now, pcGuard, httpd, guardHttpd, target_time, wakeAt,
                   shutdownRequest, isShutDown, sd, reqs, taken, cur, h,
                   exch, page, hres, response, old_timeout, quitEarly,
                   validated, parent, otherResponse, task>>

InterruptStep ==
    \/ Interrupt
    \/ InterruptServeFinally
    \/ InterruptRestoreTimeout

\* the flow is invoked with any default socket timeout
InitAnyTimeout ==
    /\ InitFlow
    /\ sockDefault \in SocketTimeouts
    /\ task = NoTask

SpecInterrupt == InitAnyTimeout /\ [][LiveNext \/ InterruptStep]_vars

\* ------------------------------------ a second invocation on one client
\* auth_code_flow is invoked again on the same OAuth2Client after the
\* earlier invocation and its threads have ended: new locals, a new guard
\* thread and a new round of callbacks; the object's attributes stay
Reinvoke ==
    /\ pcMain = "done"
    /\ httpd = "httpd"
    /\ pcGuard \in {"done", "raised"}
    /\ \A c \in Callers : sd[c] \in {"none", "returned"}
    /\ pcMain' = "start"
    /\ pcGuard' = "unstarted"
    /\ now' = 0
    /\ guardHttpd' = None
    /\ target_time' = 0
    /\ wakeAt' = 0
    /\ shutdownRequest' = FALSE
    /\ isShutDown' = FALSE
    /\ sd' = [c \in Callers |-> "none"]
    /\ reqs' = <<>>
    /\ taken' = 0
    /\ exch' = [r \in ReqIds |-> NoExchange]
    /\ page' = [r \in ReqIds |-> NoPage]
    /\ hres' = [r \in ReqIds |-> "none"]
    /\ quitEarly' = FALSE
    /\ validated' = NoResponse
    /\ result' = "none"
    /\ UNCHANGED <<httpd, cur, h, response, sockDefault, old_timeout,
                   parent, otherResponse, task>>

\* _create_httpd of the later invocation when the address is still bound by
\* the earlier server, which is never closed: HTTPServer() raises OSError
\* after OAuthCallbackHandler.parent was assigned
CreateHttpdFails ==
    /\ pcMain = "start"
    /\ httpd # None
    /\ parent' = "self"
    /\ result' = "OSError"
    /\ pcMain' = "done"
    /\ UNCHANGED <<now, pcGuard, httpd, guardHttpd, target_time, wakeAt,
                   shutdownRequest, isShutDown, sd, reqs, taken, cur, h,
                   exch, page, hres, response, sockDefault, old_timeout,
                   quitEarly, validated, otherResponse, task>>

SpecReuse == Init /\ [][LiveNext \/ Reinvoke \/ CreateHttpdFails]_vars

\* ------------------------------------------------- a second client object
\* _create_httpd of another OAuth2Client object:
\* OAuthCallbackHandler.parent = self
OtherCreateHttpd ==
    /\ parent # "other"
    /\ parent' = "other"
    /\ UNCHANGED <<now, pcMain, pcGuard, httpd, guardHttpd, target_time,
                   wakeAt, shutdownRequest, isShutDown, sd, reqs, taken,
                   cur, h, exch, page, hres, response, sockDefault,
                   old_timeout, quitEarly, validated, result,
                   otherResponse, task>>

SpecTwoClients == Init /\ [][LiveNext \/ OtherCreateHttpd]_vars

\* ------------------------------------------------ BaseGenerateDataTask
\* the variables of the OAuth2 flow, which a task leaves alone
flowVars == <<now, pcMain, pcGuard, httpd, guardHttpd, target_time, wakeAt,
              shutdownRequest, isShutDown, sd, reqs, taken, cur, h, exch,
              page, hres, response, sockDefault, old_timeout, quitEarly,
              validated, result, parent, otherResponse>>

\* _init_options
TaskInitOptions ==
    /\ task.pc = "new"
    /\ task' = [task EXCEPT
           !.mapping_file = IF Falsy(task.opt_mapping)
                            THEN "None" ELSE AbsPath(task.opt_mapping),
           !.database_url = IF Falsy(task.opt_database_url)
                            THEN "sqlite:///generated_data.db"
                            ELSE task.opt_database_url,
           !.current_batch_num = DEFAULT_BATCH_NUM,
           !.num_records = IF task.opt_num_records.has
                           THEN task.opt_num_records.val
                           ELSE DEFAULT_NUM_RECORDS,
           !.pc = "ready"]
    /\ UNCHANGED flowVars

\* _run_task calls _generate_data
TaskRun ==
    /\ task.pc = "ready"
    /\ task' = [task EXCEPT !.pc = "read"]
    /\ UNCHANGED flowVars

\* mappings = self._read_mappings(mapping_file_path): raises when the path
\* is missing; otherwise open() may fail, or the file is loaded
ReadMappings ==
    /\ task.pc = "read"
    /\ IF MappingPathMissing(task.mapping_file)
       THEN task' = [task EXCEPT !.calls = Append(@, "read_mappings"),
                                 !.error = "TaskOptionsError",
                                 !.pc = "failed"]
       ELSE \/ task' = [task EXCEPT !.calls = Append(@, "read_mappings"),
                                    !.error = "OSError",
                                    !.pc = "failed"]
            \/ \E content \in FileContents :
                  task' = [task EXCEPT !.calls = Append(@, "read_mappings"),
                                       !.mappings = content,
                                       !.pc = "engine"]
    /\ UNCHANGED flowVars

\* init_db: engine = create_engine(db_url); metadata = MetaData()
InitDbEngine ==
    /\ task.pc = "engine"
    /\ task' = [task EXCEPT
           !.calls = Append(@, "init_db"),
           !.engine = TRUE,
           !.todo = IF HasMappings(task.mappings)
                    THEN task.mappings.tables ELSE <<>>,
           !.pc = "tables"]
    /\ UNCHANGED flowVars

\* init_db: one create_table(mapping, metadata) per mapping step
CreateTable ==
    /\ task.pc = "tables"
    /\ task.todo # <<>>
    /\ task' = [task EXCEPT !.tables = Append(@, Head(task.todo)),
                            !.todo = Tail(@)]
    /\ UNCHANGED flowVars

\* init_db: metadata.create_all(), automap, create_session; init_db returns
CreateAll ==
    /\ task.pc = "tables"
    /\ task.todo = <<>>
    /\ task' = [task EXCEPT !.session = TRUE, !.pc = "generate"]
    /\ UNCHANGED flowVars

\* self.generate_data(...): the subclass's method returns or raises
GenerateData ==
    /\ task.pc = "generate"
    /\ \/ task' = [task EXCEPT !.calls = Append(@, "generate_data"),
                               !.generated = TRUE,
                               !.pc = "commit"]
       \/ task' = [task EXCEPT !.calls = Append(@, "generate_data"),
                               !.error = "generate_data raised",
                               !.pc = "failed"]
    /\ UNCHANGED flowVars

\* session.commit(); _generate_data returns
Commit ==
    /\ task.pc = "commit"
    /\ task' = [task EXCEPT !.calls = Append(@, "commit"),
                            !.commits = @ + 1,
                            !.pc = "done"]
    /\ UNCHANGED flowVars

TaskNext ==
    \/ TaskInitOptions
    \/ TaskRun
    \/ ReadMappings
    \/ InitDbEngine
    \/ CreateTable
    \/ CreateAll
    \/ GenerateData
    \/ Commit

\* a task constructed with any combination of options
InitTask ==
    /\ InitFlow
    /\ sockDefault = NO_SOCKET_TIMEOUT
    /\ task \in {NewTask(m, d, n) : m \in MappingOptions,
                                    d \in DatabaseOptions,
                                    n \in NumRecordsOptions}

SpecGenerate == InitTask /\ [][TaskNext]_vars

\* ------------------------------------------------------ claim vocabulary
\* requests delivered so far
Arrived == 1..Len(reqs)

\* a callback with a code that arrived before the deadline and whose token
\* exchange was answered with status 200
GoodCallback(r) ==
    /\ r \in Arrived
    /\ reqs[r].q.hasCode
    /\ ~reqs[r].q.hasError
    /\ ~reqs[r].late
    /\ exch[r].state = "returned"
    /\ exch[r].status = HTTP_OK

\* the flow has returned and every other thread has run to its end
Finished ==
    /\ pcMain = "done"
    /\ pcGuard \in {"done", "raised"}
    /\ \A c \in Callers : sd[c] \in {"none", "returned"}

\* ----------------------------------------------------------------- C1
\* C1: in one flow the token exchange (get_access_token) is invoked at most
\* once, whatever callbacks arrive and however they interleave with the
\* deferred shutdown thread.
C1_ExchangeAtMostOnce == Cardinality(Exchanged) <= 1

\* ----------------------------------------------------------------- C2
\* C2: once OAuth2Client.response has been set, no later step of the flow
\* changes its value.
C2_FirstWriterWins == [][response # NoResponse => response' = response]_vars

\* ----------------------------------------------------------------- C3
\* C3: a flow in which no callback arrives before the deadline elapses
\* concludes as AuthTimeoutError and its listener is stopped exactly once.
C3_NoCallbackMeansTimeout ==
    (Finished /\ \A r \in Arrived : reqs[r].late)
        => /\ result = "AuthTimeoutError"
           /\ Cardinality(ShutdownInvokers) = 1

\* ----------------------------------------------------------------- C4
\* C4: when a callback with a valid code arrived before the deadline and its
\* exchange was answered with status 200, the outcome handed to validation
\* and returned is exactly the response of such an exchange.
C4_ReturnsExchangedToken ==
    (pcMain = "done" /\ \E r \in ReqIds : GoodCallback(r))
        => \E r \in ReqIds :
               /\ GoodCallback(r)
               /\ validated = ExchangeResponse(r, HTTP_OK)

\* ----------------------------------------------------------------- C5
\* C5 as stated: in a flow with a callback carrying a valid code that arrived
\* before the deadline and was exchanged with status 200, the guard never
\* invokes the listener's shutdown.
C5_GuardNeverFires ==
    (\E r \in ReqIds : GoodCallback(r)) => sd[GuardCaller] = "none"

\* C5 as amended: in such a flow, when auth_code_flow reaches
\* timeout_thread.quit() before the deadline has elapsed, the guard never
\* invokes the listener's shutdown.
C5_CancelledGuardNeverFires ==
    (quitEarly /\ \E r \in ReqIds : GoodCallback(r))
        => sd[GuardCaller] = "none"

C5_Witness ==
    /\ quitEarly
    /\ \E r \in ReqIds : GoodCallback(r)
    /\ pcMain = "done"
    /\ pcGuard = "done"

\* ----------------------------------------------------------------- C6
\* C6: get_access_token is never invoked while handling a callback that
\* carries an error parameter.
C6_NoExchangeOnError ==
    \A r \in Arrived : reqs[r].q.hasError => exch[r].state = "none"

C6_Witness ==
    \E r \in Arrived :
        /\ reqs[r].q.hasError
        /\ reqs[r].q.hasCode
        /\ hres[r] = "finished"

\* ----------------------------------------------------------------- C7
\* C7: every handled callback that carries an error parameter, with or
\* without error_description, gets an HTTP 400 page, leaves the session
\* resolved and triggers the listener's shutdown.
C7_ErrorCallbackResolves ==
    \A r \in Arrived :
        (reqs[r].q.hasError /\ hres[r] # "none")
            => /\ page[r].status = BAD_REQUEST
               /\ response # NoResponse
               /\ sd[r] # "none"

\* ----------------------------------------------------------------- C8
\* C8: every invocation of the listener's shutdown, by a deferred thread or
\* by the guard and in any order, returns, and a step in which shutdown is
\* invoked leaves the session outcome as it was.
C8_ShutdownIdempotent ==
    /\ [][ShutdownInvokers' # ShutdownInvokers => response' = response]_vars
    /\ \A c \in Callers : (sd[c] = "waiting") ~> (sd[c] = "returned")

C8_Witness ==
    /\ sd[GuardCaller] = "returned"
    /\ \E r \in ReqIds : sd[r] = "returned"

\* ----------------------------------------------------------------- C9
\* C9: shutdown is requested for a handled callback only after its HTTP
\* response has been written, and never by the thread that runs the accept
\* loop and the request handler.
C9_RespondThenShutdown ==
    /\ sd[HandlerCaller] = "none"
    /\ \A r \in ReqIds : sd[r] # "none" => page[r].status # 0

C9_Witness ==
    \E r \in ReqIds : sd[r] = "waiting" /\ page[r].status = HTTP_OK

\* ---------------------------------------------------------------- C10
\* C10: under fair scheduling every flow eventually leaves the accept loop
\* and returns or raises, and a shutdown requested while the accept loop is
\* running is followed by the loop's exit and the return of that call.
C10_FlowTerminates ==
    /\ <>(pcMain = "done")
    /\ \A c \in Callers :
           (sd[c] = "waiting" /\ InServeLoop)
               ~> (~InServeLoop /\ sd[c] = "returned")

C10_Witness ==
    /\ pcMain = "done"
    /\ Len(reqs) = 0
    /\ sd[GuardCaller] = "returned"

\* ---------------------------------------------------------------- C11
\* C11: in a flow whose callbacks all arrive after the deadline has elapsed,
\* the token exchange is never invoked and the flow concludes as
\* AuthTimeoutError.
C11_LateCallbackIgnored ==
    (\A r \in Arrived : reqs[r].late)
        => /\ Exchanged = {}
           /\ pcMain = "done" => result = "AuthTimeoutError"

\* ---------------------------------------------------------------- C12
\* C12: when the token exchange made for a callback fails at the transport
\* level, the handler writes an HTTP 400 page, resolves the session and
\* triggers the listener's shutdown.
C12_TransportFailureResolves ==
    \A r \in Arrived :
        exch[r].state = "raised"
            => /\ page[r].status = BAD_REQUEST
               /\ response # NoResponse
               /\ sd[r] # "none"

\* ---------------------------------------------------------------- C13
\* C13: for a callback with a code whose exchange returned, the page status
\* is 200 exactly when the exchange status is below 400, a status of 400 or
\* above is passed on with the provider's body, and in both cases the handler
\* leaves the raw exchange response as the session outcome.
C13_PageReflectsExchange ==
    /\ [](\A r \in Arrived :
            (hres[r] = "finished" /\ exch[r].state = "returned")
                => /\ page[r].status = HTTP_OK
                        <=> exch[r].status < BAD_REQUEST
                   /\ exch[r].status >= BAD_REQUEST
                        => /\ page[r].status = exch[r].status
                           /\ page[r].body =
                                  ExchangeResponse(r, exch[r].status).body)
    /\ [][(pcMain = "store" /\ pcMain' # "store"
             /\ exch[cur].state = "returned")
            => response' = ExchangeResponse(cur, exch[cur].status)]_vars

C13_Witness ==
    \E r \in Arrived :
        /\ hres[r] = "finished"
        /\ exch[r].state = "returned"
        /\ exch[r].status = BAD_REQUEST
        /\ page[r].status = BAD_REQUEST

\* ---------------------------------------------------------------- C14
\* C14: the guard invokes the listener's shutdown only once its deadline has
\* elapsed and at most once; a guard that ends without having been cancelled
\* has invoked it, and its call returns, also when the listener had already
\* stopped.
C14_GuardFiresOnceAfterDeadline ==
    /\ [](sd[GuardCaller] # "none" => DeadlineElapsed)
    /\ []((pcGuard = "done" /\ guardHttpd # None)
            => sd[GuardCaller] = "returned")
    /\ [][sd[GuardCaller] = "returned" => sd'[GuardCaller] = "returned"]_vars
    /\ (pcGuard = "in_shutdown") ~> (pcGuard = "done")

C14_Witness ==
    /\ pcGuard = "in_shutdown"
    /\ isShutDown
    /\ \E r \in ReqIds : sd[r] = "returned"

\* ---------------------------------------------------------------- C15
\* C15: whenever auth_code_flow cancels the guard, the guard thread ends
\* without raising.
C15_CancelNeverRaises == pcGuard # "raised"

\* C16: every invocation of auth_code_flow starts from an unset outcome, so
\* an invocation that concludes without having taken any callback validates
\* and returns an unset outcome, never one left by an earlier invocation
C16_FreshOutcome ==
    (/\ pcMain = "done"
     /\ result \notin {"none", "OSError", "KeyboardInterrupt"}
     /\ taken = 0)
        => validated = NoResponse

\* C17: when an interrupt has aborted the flow before the guard's deadline,
\* the guard has been cancelled (its server handle is cleared), so it
\* neither polls on to the deadline nor invokes shutdown afterwards
C17_InterruptCancelsGuard ==
    (result = "KeyboardInterrupt" /\ ~DeadlineElapsed) => guardHttpd = None

\* C18: whatever other client objects create listeners, a callback handled
\* by this client's listener invokes this client's token exchange and sets
\* this client's outcome, never the other client's
C18_CallbackResolvesOwner ==
    /\ otherResponse = NoResponse
    /\ \A r \in ReqIds : exch[r].on # "other"

\* positions of the flow between socket.setdefaulttimeout(3) and the
\* finally clause that undoes it
TimeoutSetPcs ==
    {"loop", "select", "do_GET", "exchanging", "respond", "store",
     "blocked", "finally", "restore", "finally_interrupted",
     "restore_interrupted"}

\* positions of the flow after that finally clause
AfterServePcs == {"quit", "validate", "done"}

\* C19: the process-wide default socket timeout is 3 exactly from entering
\* the accept loop until the finally clause; the flow does not change it
\* before, the value saved on entry is the one in force just before
\* serving, and after every exit from the accept loop (callback, guard or
\* interrupt) the default is that saved value again and stays so
C19_SocketTimeoutRestored ==
    /\ [](pcMain \in TimeoutSetPcs => sockDefault = SERVE_SOCKET_TIMEOUT)
    /\ [](pcMain \in AfterServePcs => sockDefault = old_timeout)
    /\ [][IF pcMain = "serve" /\ pcMain' # "serve"
          THEN old_timeout' = sockDefault
          ELSE /\ old_timeout' = old_timeout
               /\ pcMain \notin TimeoutSetPcs
                     => sockDefault' = sockDefault]_vars

\* an interrupted flow has put back a default timeout that was neither
\* None nor 3
C19_Witness ==
    /\ result = "KeyboardInterrupt"
    /\ sockDefault = old_timeout
    /\ sockDefault \notin {NO_SOCKET_TIMEOUT, SERVE_SOCKET_TIMEOUT}

\* s is an initial segment of t
IsPrefix(s, t) ==
    /\ Len(s) <= Len(t)
    /\ \A i \in 1..Len(s) : s[i] = t[i]

\* C20: _generate_data makes its calls in the order read mappings, init_db,
\* generate_data, commit; it commits exactly once, as its last step; and
\* when no mapping path is configured it ends in TaskOptionsError with no
\* engine, no table, no call of generate_data and no commit
C20_GenerateDataOrder ==
    /\ IsPrefix(task.calls, GenerateOrder)
    /\ task.commits = (IF task.pc = "done" THEN 1 ELSE 0)
    /\ task.pc = "done" => task.calls = GenerateOrder
    /\ task.engine => Len(task.calls) >= 2
    /\ task.tables # <<>> => task.engine
    /\ (Falsy(task.opt_mapping)
          /\ task.pc \notin {"none", "new", "ready", "read"})
          => /\ task.pc = "failed"
             /\ task.error = "TaskOptionsError"
             /\ task.calls = <<"read_mappings">>
             /\ ~task.engine
             /\ task.tables = <<>>
             /\ ~task.session
             /\ ~task.generated

\* a task configured with an empty mapping option has failed
C20_Witness ==
    /\ task.pc = "failed"
    /\ task.error = "TaskOptionsError"
    /\ task.opt_mapping = ""

====
